---------------------------- MODULE Spec2Model ----------------------------
(***************************************************************************)
(* Model of the HelloWork job-market pipeline:                             *)
(*   scraping.py    lancer_scraping_france  (the harvest loop)             *)
(*   traitement.py  nettoyer_salaire, simplifier_titre (pure normalizers)  *)
(*                                                                         *)
(* Text is modelled as a sequence of one-character strings, so that the    *)
(* regular expressions, strip(), lower(), replace() and capitalize() of    *)
(* the source are computed character by character.                         *)
(***************************************************************************)
EXTENDS Integers, Sequences, FiniteSets, TLC

VARIABLES
    pc,         \* position of lancer_scraping_france
    driver,     \* the browser driver: "none", "open", "closed", "quit_failed"
    donnees,    \* the accumulator (list of dicts)
    page,       \* the page counter
    cartes,     \* result of the last find_elements, None before the first
    idx,        \* position of the for loop in cartes
    sortie,     \* the edge by which the try block was left
    io,         \* the external call made by the last step
    fichier,    \* the rows written by to_csv, None when nothing was written
    entree,     \* argument handed to a normalizer
    resultat,   \* value the normalizer returned
    relu,       \* value returned for the re-serialized result
    etape       \* position of the normalizer run

vars == <<pc, driver, donnees, page, cartes, idx, sortie, io, fichier,
          entree, resultat, relu, etape>>

harvestVars == <<pc, driver, donnees, page, cartes, idx, sortie, io, fichier>>
normVars == <<entree, resultat, relu, etape>>

\* An optional value: Python's None, or the node find_element does not find
\* (NoSuchElementException), is Absent.
Some(x) == [some |-> TRUE, v |-> x]
Absent == [some |-> FALSE, v |-> <<>>]

-----------------------------------------------------------------------------
(* Bounds of the model *)

\* Target count of the harvest.  scraping.py:19 sets OBJECTIF = 1000; the
\* loop only compares len(donnees) with it, so a small target exercises
\* the same branches.
OBJECTIF == 2
\* Largest number of cards one page serves.
MaxCartes == 2
\* Page numbers from MaxPage on are identified with MaxPage.
MaxPage == 3

-----------------------------------------------------------------------------
(* Characters and text helpers (Python str / re primitives) *)

Digits == {"0", "1", "2", "3", "4", "5", "6", "7", "8", "9"}
IsDigit(c) == c \in Digits

\* str.isspace(): what strip() trims and \s matches.
Spaces == {" ", "\n", "\t", "nbsp", "nnbsp"}
IsSpace(c) == c \in Spaces

Min(a, b) == IF a < b THEN a ELSE b

\* s[i..j] (1-based, inclusive), empty when j < i.
Slice(s, i, j) == IF j < i THEN <<>> ELSE SubSeq(s, i, j)

\* s.startswith(sub, i-1)
StartsAt(s, sub, i) ==
    /\ i + Len(sub) - 1 <= Len(s)
    /\ \A k \in 1..Len(sub) : s[i + k - 1] = sub[k]

\* sub in s
Contains(s, sub) == \E i \in 1..(Len(s) - Len(sub) + 1) : StartsAt(s, sub, i)

\* str.strip()
Strip(s) ==
    LET keep == {i \in 1..Len(s) : ~IsSpace(s[i])}
    IN  IF keep = {} THEN <<>>
        ELSE LET a == CHOOSE i \in keep : \A j \in keep : i <= j
                 b == CHOOSE i \in keep : \A j \in keep : j <= i
             IN  SubSeq(s, a, b)

\* str.split('\n')
RECURSIVE SplitLines(_)
SplitLines(s) ==
    LET nl == {i \in 1..Len(s) : s[i] = "\n"}
    IN  IF nl = {} THEN <<s>>
        ELSE LET i == CHOOSE k \in nl : \A j \in nl : k <= j
             IN  <<Slice(s, 1, i - 1)>> \o SplitLines(Slice(s, i + 1, Len(s)))


-----------------------------------------------------------------------------
(* FieldExtractor: the body of the for loop, scraping.py lines 80-148 *)

\* re.search(r'([0-9\s]+€.*)', t): start of the leftmost match, 0 if none.
\* [0-9\s]+ takes a maximal run of digits and whitespace, which must be
\* followed at once by the euro sign.
RunEnd(t, i) ==
    LET stop == {j \in i..Len(t) : ~(IsDigit(t[j]) \/ IsSpace(t[j]))}
    IN  IF stop = {} THEN Len(t) + 1 ELSE CHOOSE j \in stop : \A k \in stop : j <= k

SalaireMatchStart(t) ==
    LET ok == {i \in 1..Len(t) :
                 /\ IsDigit(t[i]) \/ IsSpace(t[i])
                 /\ RunEnd(t, i) <= Len(t)
                 /\ t[RunEnd(t, i)] = "€"}
    IN  IF ok = {} THEN 0 ELSE CHOOSE i \in ok : \A j \in ok : i <= j

\* match.group(1): from the start of the run to the end of the line of the
\* euro sign ('.' does not match a newline).
SalaireMatch(t) ==
    LET a  == SalaireMatchStart(t)
        e  == RunEnd(t, a)
        nl == {j \in e..Len(t) : t[j] = "\n"}
        b  == IF nl = {} THEN Len(t) ELSE (CHOOSE j \in nl : \A k \in nl : j <= k) - 1
    IN  Slice(t, a, b)

\* Lines 113-126: the salary text of a card whose textContent is t.
ExtraireSalaire(t) ==
    IF ~Contains(t, <<"€">>) THEN <<"N", "o", "n", " ", "a", "f", "f", "i", "c", "h", "é">>
    ELSE IF SalaireMatchStart(t) # 0 THEN Strip(SalaireMatch(t))
    ELSE LET ls == SplitLines(t)
             i  == CHOOSE k \in 1..Len(ls) :
                      /\ Contains(ls[k], <<"€">>)
                      /\ \A j \in 1..(k - 1) : ~Contains(ls[j], <<"€">>)
         IN  Strip(ls[i])

\* Lines 83-94: title and company.  issue: "exception" when a lookup or a
\* method call raises (find_element on a missing node, strip() on None),
\* else "ok".
ExtraireTitre(c) ==
    IF ~c.h3.found THEN [issue |-> "exception", titre |-> <<>>, entreprise |-> <<>>]
    ELSE IF Len(c.h3.ps) >= 2
    THEN IF ~c.h3.ps[1].some \/ ~c.h3.ps[2].some
         THEN [issue |-> "exception", titre |-> <<>>, entreprise |-> <<>>]
         ELSE [issue |-> "ok", titre |-> Strip(c.h3.ps[1].v),
               entreprise |-> Strip(c.h3.ps[2].v)]
    ELSE IF ~c.h3.text.some
    THEN [issue |-> "exception", titre |-> <<>>, entreprise |-> <<>>]
    ELSE LET parts == SplitLines(Strip(c.h3.text.v))
         IN  [issue |-> "ok", titre |-> Strip(parts[1]),
              entreprise |-> IF Len(parts) > 1 THEN Strip(parts[2])
                             ELSE <<"I", "n", "c", "o", "n", "n", "u">>]

\* The check of line 96, "if not titre: continue".
TitreVideJamais(titre) == FALSE
TitreVide(titre) == titre = <<>>

\* Lines 80-148 for one card.  issue is "ok" (the record rec is built),
\* "vide" (line 96) or "exception" (line 147).
ExtraireCarte(c) ==
    LET t == ExtraireTitre(c)
        rien == [Titre |-> <<>>, Entreprise |-> <<>>, Localisation |-> <<>>,
                 Contrat |-> <<>>, Salaire |-> <<>>, Lien |-> <<>>]
    IN  IF t.issue = "exception" THEN [issue |-> "exception", rec |-> rien]
        ELSE IF TitreVide(t.titre) THEN [issue |-> "vide", rec |-> rien]
        ELSE IF ~c.text.some THEN [issue |-> "exception", rec |-> rien]
        ELSE [issue |-> "ok",
              rec |-> [Titre        |-> t.titre,
                       Entreprise   |-> t.entreprise,
                       Localisation |-> IF ~c.loc.some
                                        THEN <<"F", "r", "a", "n", "c", "e">>
                                        ELSE Strip(c.loc.v),
                       Contrat      |-> IF ~c.contrat.some
                                        THEN <<"N", "o", "n", " ", "s", "p", "é", "c", "i", "f", "i", "é">>
                                        ELSE Strip(c.contrat.v),
                       Salaire      |-> ExtraireSalaire(c.text.v),
                       Lien         |-> IF ~c.lien.some
                                        THEN <<"N", "o", "n", " ", "d", "i", "s", "p", "o", "n", "i", "b", "l", "e">>
                                        ELSE c.lien.v]]

-----------------------------------------------------------------------------
(* The source: cards a results page may serve (what find_elements returns) *)

H3(ps, text) == [found |-> TRUE, ps |-> ps, text |-> text]
SansH3 == [found |-> FALSE, ps |-> <<>>, text |-> Absent]

\* Heading with two paragraphs, location, contract, a salary and a link.
CarteComplete ==
    [h3      |-> H3(<<Some(<<" ", "D", "e", "v">>), Some(<<"A", "c", "m", "e", " ">>)>>, Absent),
     loc     |-> Some(<<"L", "y", "o", "n">>),
     contrat |-> Some(<<"C", "D", "I">>),
     text    |-> Some(<<"D", "e", "v", " ", "2", "0", "0", "0", " ", "€", "/", "m", "o", "i", "s", "\n", "L", "y", "o", "n">>),
     lien    |-> Some(<<"u", "1">>)]

\* Heading without paragraphs: the newline-delimited fallback; no markers.
CarteRepli ==
    [h3      |-> H3(<<>>, Some(<<"C", "h", "e", "f", "\n", " ", "B", "i", "o">>)),
     loc     |-> Absent,
     contrat |-> Absent,
     text    |-> Some(<<"C", "h", "e", "f", " ", "B", "i", "o">>),
     lien    |-> Absent]

\* One paragraph only, a one-line heading, a euro sign no digit precedes.
CarteUneLigne ==
    [h3      |-> H3(<<Some(<<"x">>)>>, Some(<<"V", "R", "P">>)),
     loc     |-> Absent,
     contrat |-> Some(<<"C", "D", "D">>),
     text    |-> Some(<<"V", "R", "P", "\n", "P", "a", "i", "e", ":", "€", "3", "0", "k", " ", "\n">>),
     lien    |-> Some(<<"u", "2">>)]

\* No heading: find_element(By.TAG_NAME, "h3") raises.
CarteSansH3 ==
    [h3      |-> SansH3,
     loc     |-> Some(<<"L", "y", "o", "n">>),
     contrat |-> Absent,
     text    |-> Some(<<"9", " ", "€">>),
     lien    |-> Absent]

\* A blank title paragraph.
CarteTitreVide ==
    [h3      |-> H3(<<Some(<<" ", " ">>), Some(<<"A", "c", "m", "e">>)>>, Absent),
     loc     |-> Absent,
     contrat |-> Absent,
     text    |-> Some(<<"A", "c", "m", "e">>),
     lien    |-> Some(<<"u", "3">>)]

\* A title, but textContent of the card is None: '"€" in None' raises.
CarteSansTexte ==
    [h3      |-> H3(<<Some(<<"D", "e", "v">>), Some(<<"A", "c", "m", "e">>)>>, Absent),
     loc     |-> Some(<<"L", "y", "o", "n">>),
     contrat |-> Some(<<"C", "D", "I">>),
     text    |-> Absent,
     lien    |-> Some(<<"u", "1">>)]

Cartes == {CarteComplete, CarteRepli, CarteUneLigne, CarteSansH3,
           CarteTitreVide, CarteSansTexte}

\* The lists of cards a page may hold.
RECURSIVE ListesDeCartes(_)
ListesDeCartes(n) ==
    IF n = 0 THEN {<<>>}
    ELSE LET prev == ListesDeCartes(n - 1)
         IN  prev \cup {Append(l, c) : l \in {x \in prev : Len(x) = n - 1}, c \in Cartes}

Pages == ListesDeCartes(MaxCartes)

\* ExtraireCarte over the cards of the source, computed once.
Extraits == [c \in Cartes |-> ExtraireCarte(c)]

-----------------------------------------------------------------------------
(* Harvester: lancer_scraping_france *)

\* Line 69, the condition of the while loop.
BoucleContinue(d) == Len(d) < OBJECTIF

\* Line 145, "if len(donnees) >= OBJECTIF: break".
ObjectifJamaisAtteint(d) == FALSE
ObjectifAtteint(d) == Len(d) >= OBJECTIF

\* Line 75, "if not cartes".
PageJamaisVide(c) == FALSE
PageVide(c) == c = <<>>

\* Line 151, page += 1.
PageSuivante(p) == Min(p + 1, MaxPage)

HarvestInit ==
    /\ pc = "driver"
    /\ driver = "none"
    /\ donnees = <<>>
    /\ page = 1
    /\ cartes = Absent
    /\ idx = 0
    /\ sortie = "aucune"
    /\ io = "none"
    /\ fichier = Absent

\* Lines 45-49: webdriver.Chrome, and once more with a Service when the
\* first attempt raises; when both raise, the exception leaves the function.
LancerDriver ==
    /\ pc = "driver"
    /\ \E issue \in {"ok", "service", "fatal"} :
         IF issue = "fatal"
         THEN pc' = "raised" /\ driver' = driver
         ELSE pc' = "get_base" /\ driver' = "open"
    /\ io' = "Chrome"
    /\ UNCHANGED <<donnees, page, cartes, idx, sortie, fichier>>
    /\ UNCHANGED normVars

\* Lines 52-56: the first fetch, made before the try block of line 58.
GetBase ==
    /\ pc = "get_base"
    /\ \E ok \in BOOLEAN :
         pc' = IF ok THEN "cookies" ELSE "raised"
    /\ io' = "get"
    /\ donnees' = <<>>
    /\ page' = 1
    /\ UNCHANGED <<driver, cartes, idx, sortie, fichier>>
    /\ UNCHANGED normVars

\* Lines 60-66: the cookie banner; a missing button is ignored.
Cookies ==
    /\ pc = "cookies"
    /\ pc' = "boucle"
    /\ \E bouton \in BOOLEAN : io' = IF bouton THEN "click" ELSE "find_element"
    /\ UNCHANGED <<driver, donnees, page, cartes, idx, sortie, fichier>>
    /\ UNCHANGED normVars

\* Lines 69-77: the test of the while loop, find_elements, and the break on
\* an empty page.
Boucle ==
    /\ pc = "boucle"
    /\ IF ~BoucleContinue(donnees)
       THEN /\ pc' = "finally"
            /\ sortie' = "objectif"
            /\ io' = "none"
            /\ UNCHANGED <<cartes, idx>>
       ELSE \E leve \in BOOLEAN :
              IF leve
              THEN /\ pc' = "finally"
                   /\ sortie' = "exception"
                   /\ io' = "find_elements"
                   /\ UNCHANGED <<cartes, idx>>
              ELSE \E c \in Pages :
                     /\ cartes' = Some(c)
                     /\ io' = "find_elements"
                     /\ IF PageVide(c)
                        THEN pc' = "finally" /\ sortie' = "vide" /\ idx' = idx
                        ELSE /\ sortie' = sortie
                             /\ idx' = 1
                             \* a for loop over no card falls through to line 151
                             /\ pc' = IF Len(c) = 0 THEN "avance" ELSE "carte"
    /\ UNCHANGED <<driver, donnees, page, fichier>>
    /\ UNCHANGED normVars

\* Lines 79-148: one iteration of the for loop.
ScanCarte ==
    /\ pc = "carte"
    /\ LET r == Extraits[cartes.v[idx]]
           fin == idx = Len(cartes.v)
           plus == Append(donnees, r.rec)
       IN  IF r.issue = "ok"
           THEN /\ donnees' = plus
                /\ IF ObjectifAtteint(plus) \/ fin
                   THEN pc' = "avance" /\ idx' = idx
                   ELSE pc' = "carte" /\ idx' = idx + 1
           ELSE /\ donnees' = donnees
                /\ IF fin
                   THEN pc' = "avance" /\ idx' = idx
                   ELSE pc' = "carte" /\ idx' = idx + 1
    /\ io' = "carte"
    /\ UNCHANGED <<driver, page, cartes, sortie, fichier>>
    /\ UNCHANGED normVars

\* Lines 150-155: the next page is requested, then the delay.
Avance ==
    /\ pc = "avance"
    /\ page' = PageSuivante(page)
    /\ io' = "get"
    /\ \E ok \in BOOLEAN :
         IF ok THEN pc' = "boucle" /\ sortie' = sortie
               ELSE pc' = "finally" /\ sortie' = "exception"
    /\ UNCHANGED <<driver, donnees, cartes, idx, fichier>>
    /\ UNCHANGED normVars

\* Lines 157-162: driver.quit(), whose own exception is swallowed; then the
\* pending exception, if any, leaves the function.
Fermer ==
    /\ pc = "finally"
    /\ \E ok \in BOOLEAN : driver' = IF ok THEN "closed" ELSE "quit_failed"
    /\ io' = "quit"
    /\ pc' = IF sortie = "exception" THEN "raised" ELSE "export"
    /\ UNCHANGED <<donnees, page, cartes, idx, sortie, fichier>>
    /\ UNCHANGED normVars

\* Lines 165-171: the CSV is written when there is something to write.
Exporter ==
    /\ pc = "export"
    /\ pc' = "done"
    /\ IF donnees # <<>>
       THEN fichier' = Some(donnees) /\ io' = "to_csv"
       ELSE fichier' = fichier /\ io' = "print"
    /\ UNCHANGED <<driver, donnees, page, cartes, idx, sortie>>
    /\ UNCHANGED normVars

Next ==
    \/ LancerDriver
    \/ GetBase
    \/ Cookies
    \/ Boucle
    \/ ScanCarte
    \/ Avance
    \/ Fermer
    \/ Exporter

-----------------------------------------------------------------------------
(* SalaryNormalizer: nettoyer_salaire, traitement.py lines 22-67 *)

Majuscules == <<"A", "B", "C", "D", "E", "F", "G", "H", "I", "J", "K", "L", "M",
                "N", "O", "P", "Q", "R", "S", "T", "U", "V", "W", "X", "Y", "Z",
                "É", "È", "À", "Ç">>
Minuscules == <<"a", "b", "c", "d", "e", "f", "g", "h", "i", "j", "k", "l", "m",
                "n", "o", "p", "q", "r", "s", "t", "u", "v", "w", "x", "y", "z",
                "é", "è", "à", "ç">>

\* One character of str.lower() and str.upper().
LowerChar(c) ==
    IF \E i \in 1..Len(Majuscules) : Majuscules[i] = c
    THEN Minuscules[CHOOSE i \in 1..Len(Majuscules) : Majuscules[i] = c]
    ELSE c
UpperChar(c) ==
    IF \E i \in 1..Len(Minuscules) : Minuscules[i] = c
    THEN Majuscules[CHOOSE i \in 1..Len(Minuscules) : Minuscules[i] = c]
    ELSE c

\* str.lower()
Lower(s) == [i \in 1..Len(s) |-> LowerChar(s[i])]

\* Line 37: .replace(" ", "").replace("\u202f", "").replace("\xa0", "")
\*          .replace("k", "000"), on the lowercased text.  "nnbsp" and "nbsp"
\* stand for the characters U+202F and U+00A0.
RECURSIVE Nettoyer(_)
Nettoyer(s) ==
    IF s = <<>> THEN <<>>
    ELSE LET c == Head(s)
         IN  (IF c \in {" ", "nnbsp", "nbsp"} THEN <<>>
              ELSE IF c = "k" THEN <<"0", "0", "0">>
              ELSE <<c>>) \o Nettoyer(Tail(s))

CleanTxt(s) == Nettoyer(Lower(s))

\* First position from i on that holds no digit (Len(s) + 1 if none).
FinChiffres(s, i) ==
    LET stop == {j \in i..Len(s) : ~IsDigit(s[j])}
    IN  IF stop = {} THEN Len(s) + 1 ELSE CHOOSE j \in stop : \A k \in stop : j <= k

\* Line 40: re.findall(r'(\d+(?:\.\d+)?)', s) from position i on.  Each
\* number is its integer digits and its decimals (empty without a point).
RECURSIVE Nombres(_, _)
Nombres(s, i) ==
    IF i > Len(s) THEN <<>>
    ELSE IF ~IsDigit(s[i]) THEN Nombres(s, i + 1)
    ELSE LET j == FinChiffres(s, i)
             point == j + 1 <= Len(s) /\ s[j] = "." /\ IsDigit(s[j + 1])
             k == IF point THEN FinChiffres(s, j + 1) ELSE j
         IN  <<[ent  |-> Slice(s, i, j - 1),
                frac |-> IF point THEN Slice(s, j + 1, k - 1) ELSE <<>>]>>
             \o Nombres(s, k)

\* Amounts are carried in hundredths (centimes).  An amount of Plafond or
\* more is carried as Plafond: with fewer than Plafond \div SalaireMax
\* numbers in a text, a mean that involves it is above SalaireMax whatever
\* the multiplier, as it is in floating point.
Plafond == 10000000
PlafondCents == Plafond * 100

Chiffres == <<"0", "1", "2", "3", "4", "5", "6", "7", "8", "9">>
ChiffreVal(c) == (CHOOSE d \in 1..10 : Chiffres[d] = c) - 1

RECURSIVE EntierVal(_, _)
EntierVal(ds, acc) ==
    IF ds = <<>> THEN acc
    ELSE EntierVal(Tail(ds), Min(acc * 10 + ChiffreVal(Head(ds)), Plafond))

\* float(n) of line 44, in hundredths.
NombreCents(n) ==
    LET e  == EntierVal(n.ent, 0)
        d1 == IF Len(n.frac) >= 1 THEN ChiffreVal(n.frac[1]) ELSE 0
        d2 == IF Len(n.frac) >= 2 THEN ChiffreVal(n.frac[2]) ELSE 0
    IN  IF e >= Plafond THEN PlafondCents ELSE e * 100 + d1 * 10 + d2

\* The decimals of n the hundredths carry exactly.
NombreExact(n) == \A i \in 3..Len(n.frac) : n.frac[i] = "0"

\* Line 44: sum([float(n) for n in nombres]).
RECURSIVE SommeCents(_)
SommeCents(ns) ==
    IF ns = <<>> THEN 0
    ELSE Min(NombreCents(Head(ns)) + SommeCents(Tail(ns)), PlafondCents)

\* Program constants of lines 50-64.
MoisParAn == 12
JoursParAn == 218
HeuresParMoisCentiemes == 15167
BandeMin == 1200
BandeMax == 12000
SalaireMin == 14000
SalaireMax == 200000

Mois == <<"m", "o", "i", "s">>
Heure == <<"h", "e", "u", "r", "e">>
Jour == <<"j", "o", "u", "r">>

\* Line 55: 1200 <= valeur <= 12000, valeur being somme / n.
BandeLarge(somme, n) ==
    somme >= BandeMin * 100 * n /\ somme <= BandeMax * 10 * 100 * n
BandeMensuelle(somme, n) ==
    somme >= BandeMin * 100 * n /\ somme <= BandeMax * 100 * n

\* Lines 47-58: the multiplier, as a fraction num / den.
MultiplicateurHeureDAbord(clean, somme, n) ==
    IF Contains(clean, Heure)
    THEN [num |-> HeuresParMoisCentiemes * MoisParAn, den |-> 100]
    ELSE IF Contains(clean, Mois) THEN [num |-> MoisParAn, den |-> 1]
    ELSE IF Contains(clean, Jour) THEN [num |-> JoursParAn, den |-> 1]
    ELSE IF BandeMensuelle(somme, n) THEN [num |-> MoisParAn, den |-> 1]
    ELSE [num |-> 1, den |-> 1]
Multiplicateur(clean, somme, n) ==
    IF Contains(clean, Mois) THEN [num |-> MoisParAn, den |-> 1]
    ELSE IF Contains(clean, Heure)
    THEN [num |-> HeuresParMoisCentiemes * MoisParAn, den |-> 100]
    ELSE IF Contains(clean, Jour) THEN [num |-> JoursParAn, den |-> 1]
    ELSE IF BandeMensuelle(somme, n) THEN [num |-> MoisParAn, den |-> 1]
    ELSE [num |-> 1, den |-> 1]

\* Line 60: salaire_annuel = valeur * multiplicateur, in hundredths, as the
\* quotient ent and the remainder reste of somme * num by n * den.  A
\* product above SalaireMax is carried as SalaireMax * 100 with a remainder.
SalaireAnnuel(somme, n, m) ==
    LET D == n * m.den
        q == somme \div D
        r == somme % D
    IN  IF q > (SalaireMax * 100) \div m.num
        THEN [ent |-> SalaireMax * 100, reste |-> 1, div |-> D]
        ELSE LET e == q * m.num + (r * m.num) \div D
             IN  IF e > SalaireMax * 100
                 THEN [ent |-> SalaireMax * 100, reste |-> 1, div |-> D]
                 ELSE [ent |-> e, reste |-> (r * m.num) % D, div |-> D]

\* Line 64: salaire_annuel < 14000 or salaire_annuel > 200000.
SansBorneHaute(a) == a.ent < SalaireMin * 100
HorsBornes(a) ==
    \/ a.ent < SalaireMin * 100
    \/ a.ent > SalaireMax * 100
    \/ a.ent = SalaireMax * 100 /\ a.reste > 0

\* Line 67: round(salaire_annuel, 2), to the nearest hundredth, a tie to
\* the even one.
Arrondi(a) ==
    IF 2 * a.reste > a.div \/ (2 * a.reste = a.div /\ a.ent % 2 = 1)
    THEN a.ent + 1 ELSE a.ent

NonAffiche == <<"n", "o", "n", " ", "a", "f", "f", "i", "c", "h", "é">>

\* A float in hundredths, or None.
Valeur(c) == [some |-> TRUE, v |-> c]
Aucune == [some |-> FALSE, v |-> 0]

\* nettoyer_salaire: the result is Aucune for None, Valeur(c) for the float
\* c / 100.  The argument is Absent when it is not a str.
nettoyer_salaire(texte_salaire) ==
    IF ~texte_salaire.some \/ Contains(Lower(texte_salaire.v), NonAffiche)
    THEN Aucune
    ELSE LET clean   == CleanTxt(texte_salaire.v)
             nombres == Nombres(clean, 1)
         IN  IF nombres = <<>> THEN Aucune
             ELSE LET somme == SommeCents(nombres)
                      n     == Len(nombres)
                      a     == SalaireAnnuel(somme, n, Multiplicateur(clean, somme, n))
                  IN  IF HorsBornes(a) THEN Aucune ELSE Valeur(Arrondi(a))

\* str(x) of a float x given in hundredths: the integer part, a point, and
\* the decimals without trailing zeros, one at least.
RECURSIVE EntierTexte(_)
EntierTexte(n) ==
    IF n < 10 THEN <<Chiffres[n + 1]>>
    ELSE Append(EntierTexte(n \div 10), Chiffres[(n % 10) + 1])

FloatTexte(c) ==
    EntierTexte(c \div 100) \o <<".">> \o
    (IF c % 10 = 0 THEN <<Chiffres[((c \div 10) % 10) + 1]>>
     ELSE <<Chiffres[((c \div 10) % 10) + 1], Chiffres[(c % 10) + 1]>>)

\* What a result is when written out and handed back: the text of the
\* float; for None, None itself or its text.
Reserialisations(r) ==
    IF r.some THEN {Some(FloatTexte(r.v))}
    ELSE {Absent, Some(<<"N", "o", "n", "e">>), Some(<<>>)}

\* Pieces of salary text; an input is a concatenation of at most MaxJetons.
MaxJetons == 3

Jetons ==
    {<<"2", "0", "0", "0">>, <<"2", "0", "0", "0", "0">>, <<"1", "2">>, <<"3", "5">>,
     <<"k">>, <<"K">>, <<" ", "€">>,
     <<" ", "/", " ", "m", "o", "i", "s">>,
     <<" ", "/", " ", "h", "e", "u", "r", "e">>,
     <<" ", "/", " ", "j", "o", "u", "r">>,
     <<"-">>, <<".">>, <<"nbsp">>,
     <<"N", "o", "n", " ", "a", "f", "f", "i", "c", "h", "é">>}

RECURSIVE Textes(_)
Textes(n) ==
    IF n = 0 THEN {<<>>}
    ELSE LET prev == Textes(n - 1)
         IN  prev \cup {t \o j : t \in prev, j \in Jetons}

\* The inputs: what is not a str, and the texts whose numbers the
\* hundredths carry exactly.
EntreesSalaire ==
    {Absent} \cup
    {Some(t) : t \in {x \in Textes(MaxJetons) :
                        \A i \in 1..Len(Nombres(CleanTxt(x), 1)) :
                            NombreExact(Nombres(CleanTxt(x), 1)[i])}}

InitSalaire ==
    /\ HarvestInit
    /\ entree \in EntreesSalaire
    /\ resultat = Aucune
    /\ relu = Aucune
    /\ etape = "entree"

\* df['Salaire'].apply(nettoyer_salaire), line 142, for one cell.
CalculerSalaire ==
    /\ etape = "entree"
    /\ resultat' = nettoyer_salaire(entree)
    /\ etape' = "nettoye"
    /\ UNCHANGED <<entree, relu>>
    /\ UNCHANGED harvestVars

\* The result, written out, is normalized again.
RelireSalaire ==
    /\ etape = "nettoye"
    /\ \E t \in Reserialisations(resultat) : relu' = nettoyer_salaire(t)
    /\ etape' = "relu"
    /\ UNCHANGED <<entree, resultat>>
    /\ UNCHANGED harvestVars

NextSalaire ==
    \/ CalculerSalaire
    \/ RelireSalaire

SpecSalaire == InitSalaire /\ [][NextSalaire]_vars

-----------------------------------------------------------------------------
(* TitleCanonicalizer: simplifier_titre, traitement.py lines 70-94 *)

\* \w of the re module: letters, digits and the underscore.
IsWord(c) ==
    \/ IsDigit(c)
    \/ c = "_"
    \/ \E i \in 1..Len(Majuscules) : c = Majuscules[i] \/ c = Minuscules[i]

\* \b at position i: between s[i-1] and s[i], one being a word character
\* and the other not (the ends of the text count as not).
Frontiere(s, i) ==
    (i > 1 /\ i - 1 <= Len(s) /\ IsWord(s[i - 1]))
        # (i >= 1 /\ i <= Len(s) /\ IsWord(s[i]))

\* A literal matched at i under re.IGNORECASE.
LitteralEn(s, lit, i) ==
    /\ i + Len(lit) - 1 <= Len(s)
    /\ \A k \in 1..Len(lit) : LowerChar(s[i + k - 1]) = LowerChar(lit[k])

\* Line 80, r'\d+(?:[\.,]\d+)?\s?[hH]': length of the match at i, 0 if none.
HeuresEn(s, i) ==
    IF i > Len(s) \/ ~IsDigit(s[i]) THEN 0
    ELSE LET j == FinChiffres(s, i)
             decimales == /\ j + 1 <= Len(s)
                          /\ s[j] \in {".", ","}
                          /\ IsDigit(s[j + 1])
             k == IF decimales THEN FinChiffres(s, j + 1) ELSE j
         IN  IF k + 1 <= Len(s) /\ IsSpace(s[k]) /\ s[k + 1] \in {"h", "H"}
             THEN k + 2 - i
             ELSE IF k <= Len(s) /\ s[k] \in {"h", "H"}
             THEN k + 1 - i
             ELSE 0

\* The patterns of mots_a_supprimer, lines 83-88, in their order.
MotsASupprimer ==
    <<[genre |-> "temps", lit |-> <<"p", "l", "e", "i", "n">>],
      [genre |-> "temps", lit |-> <<"p", "a", "r", "t", "i", "e", "l">>],
      [genre |-> "mot", lit |-> <<"C", "D", "I">>],
      [genre |-> "mot", lit |-> <<"C", "D", "D">>],
      [genre |-> "mot", lit |-> <<"I", "n", "t", "é", "r", "i", "m">>],
      [genre |-> "mot", lit |-> <<"S", "t", "a", "g", "e">>],
      [genre |-> "mot", lit |-> <<"A", "l", "t", "e", "r", "n", "a", "n", "c", "e">>],
      [genre |-> "mot", lit |-> <<"H", "/", "F">>],
      [genre |-> "mot", lit |-> <<"F", "/", "H">>],
      [genre |-> "parentheses", lit |-> <<>>],
      [genre |-> "tiret", lit |-> <<>>],
      [genre |-> "barre", lit |-> <<>>]>>

Temps == <<"t", "e", "m", "p", "s">>

\* Length of the match of one pattern at i, 0 if none.
MotifEn(m, s, i) ==
    CASE m.genre = "heures" -> HeuresEn(s, i)
      [] m.genre = "temps" ->
            \* temps\s?plein, temps\s?partiel
            IF ~LitteralEn(s, Temps, i) THEN 0
            ELSE IF i + 5 <= Len(s) /\ IsSpace(s[i + 5]) /\ LitteralEn(s, m.lit, i + 6)
            THEN 6 + Len(m.lit)
            ELSE IF LitteralEn(s, m.lit, i + 5) THEN 5 + Len(m.lit)
            ELSE 0
      [] m.genre = "mot" ->
            \* \bLIT\b
            IF LitteralEn(s, m.lit, i) /\ Frontiere(s, i) /\ Frontiere(s, i + Len(m.lit))
            THEN Len(m.lit) ELSE 0
      [] m.genre = "parentheses" ->
            \* \(.*?\): to the first closing one, no newline in between
            IF s[i] # "(" THEN 0
            ELSE LET fin == {j \in (i + 1)..Len(s) : s[j] = ")" \/ s[j] = "\n"}
                 IN  IF fin = {} THEN 0
                     ELSE LET j == CHOOSE x \in fin : \A y \in fin : x <= y
                          IN  IF s[j] = ")" THEN j + 1 - i ELSE 0
      [] m.genre = "tiret" ->
            \* \s-\s
            IF i + 2 <= Len(s) /\ IsSpace(s[i]) /\ s[i + 1] = "-" /\ IsSpace(s[i + 2])
            THEN 3 ELSE 0
      [] m.genre = "barre" -> IF s[i] = "|" THEN 1 ELSE 0
      [] m.genre = "tiret_bas" -> IF s[i] \in {"-", "_"} THEN 1 ELSE 0
      [] m.genre = "espaces" ->
            \* \s+
            IF ~IsSpace(s[i]) THEN 0
            ELSE LET stop == {j \in i..Len(s) : ~IsSpace(s[j])}
                 IN  (IF stop = {} THEN Len(s) + 1
                      ELSE CHOOSE j \in stop : \A k \in stop : j <= k) - i

\* re.sub(m, rep, s) from position i on: the matches are taken from the
\* left and do not overlap.
RECURSIVE Sub(_, _, _, _)
Sub(m, rep, s, i) ==
    IF i > Len(s) THEN <<>>
    ELSE LET n == MotifEn(m, s, i)
         IN  IF n > 0 THEN rep \o Sub(m, rep, s, i + n)
             ELSE <<s[i]>> \o Sub(m, rep, s, i + 1)

\* Lines 90-91: the loop over mots_a_supprimer, from pattern k on.
RECURSIVE Supprimer(_, _)
Supprimer(s, k) ==
    IF k > Len(MotsASupprimer) THEN s
    ELSE Supprimer(Sub(MotsASupprimer[k], <<" ">>, s, 1), k + 1)

\* str.capitalize(): the first character in upper case, the others in
\* lower case.
CapitalizePremier(s) ==
    IF s = <<>> THEN <<>> ELSE <<UpperChar(s[1])>> \o Tail(s)
Capitalize(s) ==
    [i \in 1..Len(s) |-> IF i = 1 THEN UpperChar(s[i]) ELSE LowerChar(s[i])]

\* Lines 77-94 up to strip(): the title before capitalize().
TitreClean(titre_brut) ==
    LET sansHeures == Sub([genre |-> "heures", lit |-> <<>>], <<>>, titre_brut, 1)
        sansMots   == Supprimer(sansHeures, 1)
        sansTirets == Sub([genre |-> "tiret_bas", lit |-> <<>>], <<" ">>, sansMots, 1)
    IN  Strip(Sub([genre |-> "espaces", lit |-> <<>>], <<" ">>, sansTirets, 1))

\* simplifier_titre; the argument is Absent when it is not a str.
simplifier_titre(titre_brut) ==
    IF ~titre_brut.some THEN <<"I", "n", "c", "o", "n", "n", "u">>
    ELSE Capitalize(TitreClean(titre_brut.v))

\* Pieces of title text; an input is a concatenation of at most MaxMots.
MaxMots == 2

JetonsTitre ==
    {<<"D", "e", "v">>, <<"P", "H", "P">>, <<"é", "c", "o">>, <<" ">>,
     <<"(", "C", "D", "I", ")">>, <<"C", "D", "I">>, <<"s", "t", "a", "g", "e">>,
     <<" ", "-", " ">>, <<"-">>, <<"_">>, <<"|">>,
     <<"3", "5", "h">>, <<"3", ",", "5", " ", "H">>, <<"H", "/", "F">>,
     <<"t", "e", "m", "p", "s", " ", "p", "l", "e", "i", "n">>,
     <<"(">>, <<")">>}

RECURSIVE Titres(_)
Titres(n) ==
    IF n = 0 THEN {<<>>}
    ELSE LET prev == Titres(n - 1)
         IN  prev \cup {t \o j : t \in prev, j \in JetonsTitre}

EntreesTitre == {Absent} \cup {Some(t) : t \in Titres(MaxMots)}

InitTitre ==
    /\ HarvestInit
    /\ entree \in EntreesTitre
    /\ resultat = <<>>
    /\ relu = <<>>
    /\ etape = "entree"

\* df['Titre'].apply(simplifier_titre), line 145, for one cell.
SimplifierTitre ==
    /\ etape = "entree"
    /\ resultat' = simplifier_titre(entree)
    /\ etape' = "simplifie"
    /\ UNCHANGED <<entree, relu>>
    /\ UNCHANGED harvestVars

NextTitre == SimplifierTitre

SpecTitre == InitTitre /\ [][NextTitre]_vars

NormIdle == entree = Absent /\ resultat = Absent /\ relu = Absent /\ etape = "idle"

Init == HarvestInit /\ NormIdle

Spec == Init /\ [][Next]_vars

\* The interpreter runs the function to its end: a step that can be taken
\* is taken.
FairSpec == Spec /\ WF_vars(Next)

-----------------------------------------------------------------------------
(* Properties of the harvest *)

PageVideVue == cartes.some /\ cartes.v = <<>>

\* C1: the accumulator never holds more than OBJECTIF records, and when the
\* loop is left because the target was reached it holds exactly OBJECTIF,
\* even if the page scanned last had further extractable cards.
C1_ObjectifExact ==
    /\ Len(donnees) <= OBJECTIF
    /\ sortie = "objectif" => Len(donnees) = OBJECTIF

\* C1 witness: the run ended on the target while the card after the one
\* that reached it was extractable.
C1_Witness ==
    /\ sortie = "objectif"
    /\ idx < Len(cartes.v)
    /\ ExtraireCarte(cartes.v[idx + 1]).issue = "ok"

\* C2: once the browser is acquired, every exit of the function has called
\* driver.quit, the first fetch of the base URL included.
C2_SessionLiberee ==
    (pc \in {"done", "raised"} /\ driver # "none")
        => driver \in {"closed", "quit_failed"}

\* C3: a page with zero cards stops the loop at once, whatever was
\* accumulated: the step that finds it leaves the accumulator and the page
\* counter alone and goes to the teardown, no page is requested or read
\* afterwards, and what was accumulated is what the run writes.
C3_PageVideArrete ==
    /\ [][(~PageVideVue /\ PageVideVue')
            => (pc' = "finally" /\ donnees' = donnees /\ page' = page)]_vars
    /\ [][PageVideVue
            => (/\ io' \notin {"get", "find_elements", "carte"}
                /\ donnees' = donnees
                /\ page' = page
                /\ pc' \in {"export", "done"})]_vars
    /\ []((pc = "done" /\ PageVideVue)
            => fichier = IF donnees = <<>> THEN Absent ELSE Some(donnees))

\* C3 witness: an empty page ended a run that had collected something, below
\* the target.
C3_Witness ==
    /\ pc = "done"
    /\ PageVideVue
    /\ Len(donnees) > 0
    /\ Len(donnees) < OBJECTIF
    /\ fichier = Some(donnees)

\* C4: a card whose extraction raises, or whose title is empty, adds nothing
\* to the accumulator and does not end the harvest: the next card of the
\* page is scanned, nothing propagates; and no record has an empty title.
C4_CarteDefaillanteSautee ==
    /\ [][(pc = "carte" /\ ExtraireCarte(cartes.v[idx]).issue # "ok")
            => (/\ donnees' = donnees
                /\ sortie' = sortie
                /\ IF idx < Len(cartes.v)
                   THEN pc' = "carte" /\ idx' = idx + 1
                   ELSE pc' = "avance")]_vars
    /\ [](\A i \in 1..Len(donnees) : donnees[i].Titre # <<>>)

\* C4 witness: the first card of a page raised, the second one is being
\* scanned, and the accumulator holds what it held.
C4_Witness ==
    /\ pc = "carte"
    /\ idx = 2
    /\ io = "carte"
    /\ ExtraireCarte(cartes.v[1]).issue = "exception"
    /\ sortie = "aucune"

\* C9: once the target count is reached no page is requested any more.
C9_PasDeRequeteApresObjectif ==
    [][Len(donnees) >= OBJECTIF => io' # "get"]_vars

\* C10: every run ends, by returning or by a propagated exception, also
\* when the source keeps serving cards that yield no record.
C10_Termine == <>(pc \in {"done", "raised"})

-----------------------------------------------------------------------------
(* Properties of nettoyer_salaire, under SpecSalaire *)

\* C5: whatever the input, a str or not, nettoyer_salaire returns None or
\* a number between 14000 and 200000.
C5_BornesSalaire ==
    etape \in {"nettoye", "relu"}
        => \/ resultat = Aucune
           \/ /\ resultat.some
              /\ SalaireMin * 100 <= resultat.v
              /\ resultat.v <= SalaireMax * 100

\* C5 witness: a text with a number was normalized to a value.
C5_Witness ==
    /\ etape = "nettoye"
    /\ entree.some
    /\ resultat.some
    /\ resultat.v > BandeMax * 100

Exemple2000Mois ==
    <<"2", "0", "0", "0", " ", "€", " ", "/", " ", "m", "o", "i", "s">>
Exemple35k == <<"3", "5", "k", " ", "€">>
Exemple12Heure ==
    <<"1", "2", " ", "€", " ", "/", " ", "h", "e", "u", "r", "e">>
Exemple20000Mois ==
    <<"2", "0", "0", "0", "0", " ", "€", " ", "/", " ", "m", "o", "i", "s">>

\* C6: one multiplier is picked in strict priority: month keyword 12, else
\* hour keyword 151.67 * 12, else day keyword 218, else an unlabelled mean
\* within [1200, 12000] 12, else 1; the result is the mean times it, None
\* outside [14000, 200000]; "2000 € / mois" gives 24000.0, "35k €" 35000.0,
\* "12 € / heure" 21840.48 and "20000 € / mois" None.
C6_Multiplicateur ==
    (etape = "nettoye" /\ entree.some)
        => /\ entree.v = Exemple2000Mois => resultat = Valeur(2400000)
           /\ entree.v = Exemple35k => resultat = Valeur(3500000)
           /\ entree.v = Exemple12Heure => resultat = Valeur(2184048)
           /\ entree.v = Exemple20000Mois => resultat = Aucune
           /\ LET clean == CleanTxt(entree.v)
                  ns    == Nombres(clean, 1)
                  somme == SommeCents(ns)
                  n     == Len(ns)
                  m     == IF Contains(clean, Mois) THEN [num |-> 12, den |-> 1]
                           ELSE IF Contains(clean, Heure) THEN [num |-> 182004, den |-> 100]
                           ELSE IF Contains(clean, Jour) THEN [num |-> 218, den |-> 1]
                           ELSE IF 120000 * n <= somme /\ somme <= 1200000 * n
                           THEN [num |-> 12, den |-> 1]
                           ELSE [num |-> 1, den |-> 1]
                  a     == SalaireAnnuel(somme, n, m)
              IN  (ns # <<>> /\ ~Contains(Lower(entree.v), NonAffiche))
                      => resultat = IF HorsBornes(a) THEN Aucune ELSE Valeur(Arrondi(a))

\* C6 witness: a text labelled by the hour and by the month was annualized
\* as a monthly figure.
C6_Witness ==
    /\ etape = "nettoye"
    /\ entree.some
    /\ Contains(CleanTxt(entree.v), Mois)
    /\ Contains(CleanTxt(entree.v), Heure)
    /\ resultat = Valeur(2400000)

\* C7: normalizing the text of a result gives the result again, and
\* normalizing the absence marker gives None.
C7_Idempotent == etape = "relu" => relu = resultat

\* C7 witness: a value with two decimals was written out and read back.
C7_Witness ==
    /\ etape = "relu"
    /\ resultat.some
    /\ resultat.v % 10 # 0
    /\ relu = resultat

-----------------------------------------------------------------------------
(* Properties of simplifier_titre, under SpecTitre *)

Inconnu == <<"I", "n", "c", "o", "n", "n", "u">>

EstMajuscule(c) == \E i \in 1..Len(Majuscules) : c = Majuscules[i] /\ c # Minuscules[i]

\* C8 as stated: only the first character of the result is capitalized, the
\* case of every other character is that of the input; "Inconnu" for what
\* is not a str.
C8_ResteInchange ==
    etape = "simplifie"
        => IF entree.some
           THEN LET t == TitreClean(entree.v)
                IN  /\ Len(resultat) = Len(t)
                    /\ \A i \in 1..Len(t) :
                         resultat[i] = IF i = 1 THEN UpperChar(t[i]) ELSE t[i]
           ELSE resultat = Inconnu

\* C8 as amended: the first character of the result is in upper case and
\* every other character in lower case; "Inconnu" for what is not a str.
C8_ResteEnMinuscules ==
    etape = "simplifie"
        => IF entree.some
           THEN LET t == TitreClean(entree.v)
                IN  /\ Len(resultat) = Len(t)
                    /\ \A i \in 1..Len(t) :
                         resultat[i] = IF i = 1 THEN UpperChar(t[i]) ELSE LowerChar(t[i])
           ELSE resultat = Inconnu

\* C8 witness: a title with an upper-case letter after its first character
\* was simplified.
C8_Witness ==
    /\ etape = "simplifie"
    /\ entree.some
    /\ \E i \in 2..Len(TitreClean(entree.v)) : EstMajuscule(TitreClean(entree.v)[i])
    /\ \A i \in 2..Len(resultat) : ~EstMajuscule(resultat[i])

=============================================================================
